---- MODULE Spec2Model ----
(***************************************************************************)
(* GSVA orchestration (gseapy/gsva.py): GSVA.__init__, GSVA.load_data and  *)
(* GSVA.run, together with the collaborators run() calls (the gene-set     *)
(* filter load_gmt, the gsva_rs engine and to_df), which live outside      *)
(* gsva.py and are modelled from their specified contract.                 *)
(*                                                                         *)
(* A DataFrame is a record [index, values, na]: index is the sequence of   *)
(* row labels (gene identifiers, integers so that they can be sorted),     *)
(* values the sequence of rows (one integer per sample column) and na the  *)
(* set of <<row, column>> positions holding a missing value.  Numbers are  *)
(* kept in units of 1/Unit so that the mean of duplicated rows is exact.   *)
(***************************************************************************)
EXTENDS Integers, Sequences, FiniteSets, TLC

\* ---- bounds of the model ------------------------------------------------
MaxRows == 3
MaxCols == 2
MaxGene == 3
MaxVal == 1
MaxSize == 3
MaxTau == 1
MaxThreads == 2
NumSets == 2

\* ---- arithmetic helpers -------------------------------------------------
RECURSIVE Factorial(_)
Factorial(n) == IF n <= 1 THEN 1 ELSE n * Factorial(n - 1)

Unit == Factorial(MaxRows)

Abs(x) == IF x < 0 THEN -x ELSE x

RECURSIVE Pow(_, _)
Pow(b, e) == IF e = 0 THEN 1 ELSE b * Pow(b, e - 1)

RECURSIVE SumSeq(_)
SumSeq(s) == IF s = <<>> THEN 0 ELSE Head(s) + SumSeq(Tail(s))

RECURSIVE SortedSeq(_)
SortedSeq(S) ==
    IF S = {} THEN <<>>
    ELSE LET m == CHOOSE x \in S : \A y \in S : x <= y
         IN  <<m>> \o SortedSeq(S \ {m})

Range(s) == {s[i] : i \in DOMAIN s}

NRows(m) == Len(m.index)
NCols(m) == IF m.values = <<>> THEN 0 ELSE Len(m.values[1])

\* ---- GSVA.load_data -----------------------------------------------------
\* rank_metric.isnull().any().sum() > 0
HasNull(m) == m.na # {}

\* rank_metric.fillna(0)
FillNa(m) ==
    [index  |-> m.index,
     values |-> [r \in DOMAIN m.values |->
                   [c \in DOMAIN m.values[r] |->
                      IF <<r, c>> \in m.na THEN 0 ELSE m.values[r][c]]],
     na     |-> {}]

\* rank_metric.index.duplicated().sum() > 0
HasDuplicated(m) ==
    \E i, j \in DOMAIN m.index : i < j /\ m.index[i] = m.index[j]

\* rank_metric.groupby(level=0).mean(): one row per label, labels sorted,
\* each cell the arithmetic mean of the group's cells in that column.
GroupKeysSorted(m) == SortedSeq(Range(m.index))

GroupByMean(m) ==
    LET keys == GroupKeysSorted(m)
        rowsOf(g) == {r \in DOMAIN m.index : m.index[r] = g}
        colSum(g, c) ==
            SumSeq([k \in 1..Len(SortedSeq(rowsOf(g))) |->
                       m.values[SortedSeq(rowsOf(g))[k]][c]])
    IN  [index  |-> keys,
         values |-> [k \in DOMAIN keys |->
                       [c \in 1..NCols(m) |->
                          colSum(keys[k], c) \div Cardinality(rowsOf(keys[k]))]],
         na     |-> {}]

LoadDataOf(exprs) ==
    LET filled == IF HasNull(exprs) THEN FillNa(exprs) ELSE exprs
    IN  IF HasDuplicated(filled) THEN GroupByMean(filled) ELSE filled

\* df.clip(lower=0)
ClipLower0(m) ==
    [m EXCEPT !.values = [r \in DOMAIN m.values |->
                            [c \in DOMAIN m.values[r] |->
                               IF m.values[r][c] < 0 THEN 0 ELSE m.values[r][c]]]]

\* ---- GSVA.__init__: kernel selection -----------------------------------
\* variant: the Gaussian branch also switches the count mode on
RnaseqOfBoth(kcdf) ==
    IF kcdf \in {"Gaussian", "gaussian"} THEN TRUE
    ELSE IF kcdf \in {"Poisson", "poisson"} THEN TRUE
    ELSE FALSE

KernelOf(kcdf) ==
    IF kcdf \in {"Gaussian", "gaussian"} THEN TRUE
    ELSE IF kcdf \in {"Poisson", "poisson"} THEN TRUE
    ELSE FALSE

RnaseqOf(kcdf) ==
    IF kcdf \in {"Gaussian", "gaussian"} THEN FALSE
    ELSE IF kcdf \in {"Poisson", "poisson"} THEN TRUE
    ELSE FALSE

\* ---- gene-set filter (GSEAbase.load_gmt, contract of the Gene-Set Filter)
\* A gene-set collection is a sequence of [name, genes]; the filter keeps, in
\* order, the sets whose overlap with gene_list has a size in [mn, mx] and
\* replaces their membership by the overlap.
Overlap(gs, gene_list) == gs.genes \cap gene_list

Survives(gs, gene_list, mn, mx) ==
    /\ mn <= Cardinality(Overlap(gs, gene_list))
    /\ Cardinality(Overlap(gs, gene_list)) <= mx

RECURSIVE FilterSets(_, _, _, _)
FilterSets(sets, gene_list, mn, mx) ==
    IF sets = <<>> THEN <<>>
    ELSE LET gs   == Head(sets)
             rest == FilterSets(Tail(sets), gene_list, mn, mx)
         IN  IF Survives(gs, gene_list, mn, mx)
             THEN <<[name |-> gs.name, genes |-> Overlap(gs, gene_list)]>> \o rest
             ELSE rest

\* ---- Kernel CDF Estimator ----------------------------------------------
\* Per gene (row): where each sample's value falls in the gene's empirical
\* distribution across samples, centred so that the row mean is removed.
\* The estimate is kept in integers: n * F(x_s) - sum_s' F(x_s'), where
\* F(x) counts the samples of the gene with a value <= x.
EcdfCount(row, c) == Cardinality({k \in DOMAIN row : row[k] <= row[c]})

KernelRow(row) ==
    LET n    == Len(row)
        tot  == SumSeq([c \in DOMAIN row |-> EcdfCount(row, c)])
    IN  [c \in DOMAIN row |-> n * EcdfCount(row, c) - tot]

Transform(matrix, kernel_enabled) ==
    IF kernel_enabled
    THEN [r \in DOMAIN matrix |-> KernelRow(matrix[r])]
    ELSE matrix

\* ---- Sample Ranker ------------------------------------------------------
\* Gene indices of one column by descending value, ties by ascending index.
Column(matrix, c) == [r \in DOMAIN matrix |-> matrix[r][c]]

RECURSIVE RankFrom(_, _)
RankFrom(col, left) ==
    IF left = {} THEN <<>>
    ELSE LET top == CHOOSE i \in left :
                       \A k \in left : \/ col[i] > col[k]
                                       \/ (col[i] = col[k] /\ i <= k)
         IN  <<top>> \o RankFrom(col, left \ {top})

RankColumn(col) == RankFrom(col, DOMAIN col)

\* ---- Enrichment Statistic Engine ---------------------------------------
\* Walk of one (gene set, sample) pair.  Weights are |value|^tau; NR is the
\* total weight of the set's genes and Dn = N - |S| the count of the others.
\* The running sum is kept multiplied by NR * Dn: a gene of the set adds
\* weight * Dn, any other gene subtracts NR.
Weight(v, tau) == Pow(Abs(v), tau)

InSet(gene_ids, S, i) == gene_ids[i] \in S

SetSize(gene_ids, S) == Cardinality({i \in DOMAIN gene_ids : gene_ids[i] \in S})

NormIn(gene_ids, col, S, tau) ==
    SumSeq([i \in DOMAIN gene_ids |->
               IF InSet(gene_ids, S, i) THEN Weight(col[i], tau) ELSE 0])

NormOut(gene_ids, S) == Len(gene_ids) - SetSize(gene_ids, S)

\* zero-denominator normalisation: the pair cannot be scored
Degenerate(gene_ids, col, S, tau) ==
    \/ NormOut(gene_ids, S) = 0
    \/ NormIn(gene_ids, col, S, tau) = 0

StepOf(gene_ids, col, S, tau, i) ==
    IF InSet(gene_ids, S, i)
    THEN Weight(col[i], tau) * NormOut(gene_ids, S)
    ELSE 0 - NormIn(gene_ids, col, S, tau)

\* [cur, pos, neg] after walking the ranking from position k to the end
RECURSIVE Walk(_, _, _, _, _, _, _)
Walk(gene_ids, col, rnk, S, tau, k, acc) ==
    IF k > Len(rnk) THEN acc
    ELSE LET cur == acc.cur + StepOf(gene_ids, col, S, tau, rnk[k])
         IN  Walk(gene_ids, col, rnk, S, tau, k + 1,
                  [cur |-> cur,
                   pos |-> IF cur > acc.pos THEN cur ELSE acc.pos,
                   neg |-> IF cur < acc.neg THEN cur ELSE acc.neg])

\* reduction policy: (max_positive, min_negative) -> score
Reduce(pos, neg, mx_diff, abs_rnk) ==
    IF abs_rnk
    THEN IF mx_diff THEN Abs(pos) + Abs(neg)
         ELSE IF Abs(pos) >= Abs(neg) THEN Abs(pos) ELSE Abs(neg)
    ELSE IF mx_diff THEN pos - neg
         ELSE IF Abs(pos) >= Abs(neg) THEN pos ELSE neg

\* score of one pair as a fraction num / den
ScoreOf(gene_ids, col, rnk, S, a) ==
    LET w == Walk(gene_ids, col, rnk, S, a.tau, 1, [cur |-> 0, pos |-> 0, neg |-> 0])
    IN  [num |-> Reduce(w.pos, w.neg, a.mx_diff, a.abs_rnk),
         den |-> NormIn(gene_ids, col, S, a.tau) * NormOut(gene_ids, S)]

\* ---- state --------------------------------------------------------------
VARIABLES
    input,      \* the data argument of the constructor (never changed)
    kcdf,       \* the kcdf argument of the constructor
    data,       \* self.data
    gene_sets,  \* self.gene_sets
    kernel,     \* self.kernel
    rnaseq,     \* self.rnaseq
    tau,        \* self.tau
    min_size,   \* self.min_size
    max_size,   \* self.max_size
    mx_diff,    \* self.mx_diff
    abs_rnk,    \* self.abs_rnk
    threads,    \* self._threads
    pc,         \* position of run()
    df,         \* local df of run()
    gmt,        \* self.gmt
    steps,      \* the calls run() has made so far, in order
    call,       \* arguments the engine was invoked with
    rankings,   \* engine: per-sample gene ranking
    task,       \* engine: state of each per-sample task
    slots,      \* engine: per-sample output slot
    failed,     \* engine: a task has failed
    completed,  \* engine: samples in the order their tasks finished
    gsum,       \* value returned by gsva_rs
    results,    \* score table built by to_df
    ranking,    \* self.ranking
    err         \* exception run() ended with

params == <<input, kcdf, gene_sets, kernel, rnaseq, tau, min_size, max_size,
            mx_diff, abs_rnk, threads>>
engine == <<call, rankings, task, slots, failed, completed>>
output == <<gsum, results, ranking, err>>
vars == <<params, data, pc, df, gmt, steps, engine, output>>

None == [index |-> <<>>, values |-> <<>>, na |-> {}]
NoCall == [gene_ids |-> <<>>, matrix |-> <<>>, gmt |-> <<>>, kernel |-> FALSE,
           rnaseq |-> FALSE, mx_diff |-> FALSE, abs_rnk |-> FALSE, tau |-> 0,
           min_size |-> 0, max_size |-> 0, threads |-> 0]
NoSum == [summaries |-> <<>>, rankings |-> <<>>, indices |-> <<>>]
NoTable == [index |-> <<>>, columns |-> 0, values |-> <<>>]

\* ---- inputs -------------------------------------------------------------
Genes == 1..MaxGene
KcdfNames == {"Gaussian", "gaussian", "Poisson", "poisson", "POISSON", "none"}
NaCell == MaxVal + 1
Cells == (0 - MaxVal)..MaxVal

\* the DataFrame with row labels ids and cells f (NaCell marks a missing one)
MatrixOf(ids, f) ==
    [index  |-> ids,
     values |-> [r \in DOMAIN f |->
                   [c \in DOMAIN f[r] |->
                      IF f[r][c] = NaCell THEN 0 ELSE f[r][c] * Unit]],
     na     |-> {<<r, c>> \in (DOMAIN f) \X (1..MaxCols) :
                    c \in DOMAIN f[r] /\ f[r][c] = NaCell}]

\* frames of n rows whose labels may repeat and come in any order
Frames(rowCounts, labels, ncols, cellSet) ==
    UNION {{MatrixOf(ids, f) : ids \in [1..n -> labels],
                               f \in [1..n -> [1..ncols -> cellSet]]}
           : n \in rowCounts}

\* frames of n rows labelled 1..n, no missing cell
DistinctIds(n) == [i \in 1..n |-> i]
CleanFrames(n, ncols, cellSet) ==
    {MatrixOf(DistinctIds(n), f) : f \in [1..n -> [1..ncols -> cellSet]]}

\* a fixed frame whose cells differ along rows and columns
PatternFrame(n, ncols) ==
    MatrixOf(DistinctIds(n),
             [r \in 1..n |-> [c \in 1..ncols |->
                                ((c * (r + 1)) % (2 * MaxVal + 1)) - MaxVal]])

SetsOf(f) == [i \in DOMAIN f |-> [name |-> i, genes |-> f[i]]]
SameSets(S) == SetsOf([i \in 1..NumSets |-> S])
Intervals == {a..b : a \in Genes, b \in 0..MaxGene}
Prefixes == {1..b : b \in 0..MaxGene}
Suffixes == {a..MaxGene : a \in Genes}

Construct(exprs, gs, kc, w, mn, mx, md, ar, th) ==
    /\ input = exprs
    /\ kcdf = kc
    /\ data = exprs
    /\ gene_sets = gs
    /\ kernel = KernelOf(kc)
    /\ rnaseq = RnaseqOf(kc)
    /\ tau = w
    /\ min_size = mn
    /\ max_size = mx
    /\ mx_diff = md
    /\ abs_rnk = ar
    /\ threads = th
    /\ pc = "start"
    /\ df = None
    /\ gmt = <<>>
    /\ steps = <<>>
    /\ call = NoCall
    /\ rankings = <<>>
    /\ task = <<>>
    /\ slots = <<>>
    /\ failed = FALSE
    /\ completed = <<>>
    /\ gsum = NoSum
    /\ results = NoTable
    /\ ranking = <<>>
    /\ err = "none"

\* one-sample frames with missing cells and repeated, unordered labels
InitLoad ==
    \E exprs \in Frames(1..MaxRows, 1..2, 1, {0 - MaxVal, MaxVal, NaCell}),
       kc \in {"Gaussian", "poisson"} :
        Construct(exprs, SameSets({1}), kc, 1, 1, MaxSize, TRUE, FALSE, 1)

\* every spelling of kcdf on every two-gene sample
InitKcdf ==
    \E exprs \in CleanFrames(2, 1, Cells), kc \in KcdfNames :
        Construct(exprs, SameSets({1}), kc, 0, 1, MaxSize, TRUE, FALSE, 1)

\* gene-set collections against the genes present and the size window
InitFilter ==
    \E n \in 1..MaxRows, f \in [1..NumSets -> Intervals],
       mn \in 1..MaxSize, mx \in 1..MaxSize :
        Construct(MatrixOf(DistinctIds(n), [r \in 1..n |-> <<r % 2>>]), SetsOf(f),
                  "none", 1, mn, mx, TRUE, FALSE, 1)

\* every one-sample value vector, gene set, weight and reduction policy
InitScore ==
    \E exprs \in CleanFrames(MaxRows, 1, Cells), S \in (Prefixes \cup Suffixes) \ {{}},
       w \in 0..MaxTau, md \in BOOLEAN, ar \in BOOLEAN :
        Construct(exprs, SameSets(S), "none", w, 1, MaxSize, md, ar, 1)

\* every three-gene frame of signs under each kernel
InitKernel ==
    \E exprs \in CleanFrames(3, MaxCols, {0 - MaxVal, MaxVal}),
       kc \in {"Gaussian", "Poisson", "none"} :
        Construct(exprs, SetsOf([i \in 1..NumSets |-> {i}]), kc, 1, 1, MaxSize,
                  TRUE, FALSE, 1)

\* gene-set collections and thread counts on one many-sample frame
InitSched ==
    \E f \in [1..NumSets -> Prefixes], mx \in 1..MaxSize, th \in 1..MaxThreads,
       md \in BOOLEAN :
        Construct(PatternFrame(MaxRows, MaxCols), SetsOf(f), "none", 1, 1, mx,
                  md, FALSE, th)

Init == InitLoad \/ InitKcdf \/ InitFilter \/ InitScore \/ InitKernel \/ InitSched

\* ---- GSVA.run -----------------------------------------------------------
\* df = self.load_data()
LoadData ==
    /\ pc = "start"
    /\ df' = LoadDataOf(data)
    /\ steps' = Append(steps, "load_data")
    /\ pc' = "loaded"
    /\ UNCHANGED <<params, data, gmt, engine, output>>

\* if self.rnaseq: df = df.clip(lower=0);  self.data = df
ClipData ==
    /\ pc = "loaded"
    /\ df' = IF rnaseq THEN ClipLower0(df) ELSE df
    /\ data' = df'
    /\ steps' = IF rnaseq THEN Append(steps, "clip") ELSE steps
    /\ pc' = "clipped"
    /\ UNCHANGED <<params, gmt, engine, output>>

\* variant: the filter is given every known gene, not the frame's labels
GeneListAll(d) == Genes

\* gene_list=df.index.values
GeneList(d) == Range(d.index)

\* gmt = self.load_gmt(gene_list=df.index.values, gmt=self.gene_sets)
LoadGmt ==
    /\ pc = "clipped"
    /\ gmt' = FilterSets(gene_sets, GeneList(df), min_size, max_size)
    /\ steps' = Append(steps, "load_gmt")
    /\ pc' = "filtered"
    /\ UNCHANGED <<params, data, df, engine, output>>

\* variant: the assertion also rejects an empty filtered collection
CheckSizesNonEmpty ==
    /\ pc = "filtered"
    /\ IF min_size <= max_size /\ gmt # <<>>
       THEN pc' = "checked" /\ err' = err
       ELSE pc' = "error" /\ err' = "AssertionError"
    /\ UNCHANGED <<params, data, df, gmt, steps, engine, gsum, results, ranking>>

\* assert self.min_size <= self.max_size
CheckSizes ==
    /\ pc = "filtered"
    /\ IF min_size <= max_size
       THEN pc' = "checked" /\ err' = err
       ELSE pc' = "error" /\ err' = "AssertionError"
    /\ UNCHANGED <<params, data, df, gmt, steps, engine, gsum, results, ranking>>

\* variant: self.rnaseq is passed in the kernel position as well
GsvaRsArgsKernelFromRnaseq ==
    [gene_ids |-> df.index,
     matrix   |-> df.values,
     gmt      |-> gmt,
     kernel   |-> rnaseq,
     rnaseq   |-> rnaseq,
     mx_diff  |-> mx_diff,
     abs_rnk  |-> abs_rnk,
     tau      |-> tau,
     min_size |-> min_size,
     max_size |-> max_size,
     threads  |-> threads]

\* variant: mx_diff is passed in both flag positions
GsvaRsArgsSameFlag ==
    [gene_ids |-> df.index,
     matrix   |-> df.values,
     gmt      |-> gmt,
     kernel   |-> kernel,
     rnaseq   |-> rnaseq,
     mx_diff  |-> mx_diff,
     abs_rnk  |-> mx_diff,
     tau      |-> tau,
     min_size |-> min_size,
     max_size |-> max_size,
     threads  |-> threads]

\* variant: the two flags are passed in each other's position
GsvaRsArgsSwappedFlags ==
    [gene_ids |-> df.index,
     matrix   |-> df.values,
     gmt      |-> gmt,
     kernel   |-> kernel,
     rnaseq   |-> rnaseq,
     mx_diff  |-> abs_rnk,
     abs_rnk  |-> mx_diff,
     tau      |-> tau,
     min_size |-> min_size,
     max_size |-> max_size,
     threads  |-> threads]

\* the argument list of gsva_rs(...)
GsvaRsArgs ==
    [gene_ids |-> df.index,
     matrix   |-> df.values,
     gmt      |-> gmt,
     kernel   |-> kernel,
     rnaseq   |-> rnaseq,
     mx_diff  |-> mx_diff,
     abs_rnk  |-> abs_rnk,
     tau      |-> tau,
     min_size |-> min_size,
     max_size |-> max_size,
     threads  |-> threads]

\* ---- gsva_rs ------------------------------------------------------------
Transformed == Transform(call.matrix, call.kernel)
EngineSets ==
    FilterSets(call.gmt, Range(call.gene_ids), call.min_size, call.max_size)
ArgCols(a) == IF a.matrix = <<>> THEN 0 ELSE Len(a.matrix[1])
Running == {j \in DOMAIN task : task[j] = "running"}

\* entry: filter, transform and rank synchronously, then queue one task per
\* sample with its own output slot
GsvaRsCall ==
    /\ pc = "checked"
    /\ call' = GsvaRsArgs
    /\ rankings' = [j \in 1..ArgCols(GsvaRsArgs) |->
                      RankColumn(Column(Transform(GsvaRsArgs.matrix, GsvaRsArgs.kernel), j))]
    /\ task' = [j \in 1..ArgCols(GsvaRsArgs) |-> "pending"]
    /\ slots' = [j \in 1..ArgCols(GsvaRsArgs) |-> <<>>]
    /\ failed' = FALSE
    /\ completed' = <<>>
    /\ steps' = Append(steps, "gsva_rs")
    /\ pc' = "engine"
    /\ UNCHANGED <<params, data, df, gmt, output>>

TaskColumn(j) ==
    [i \in DOMAIN EngineSets |->
        ScoreOf(call.gene_ids, Column(Transformed, j), rankings[j],
                EngineSets[i].genes, call)]

TaskFails(j) ==
    \E i \in DOMAIN EngineSets :
        Degenerate(call.gene_ids, Column(Transformed, j), EngineSets[i].genes, call.tau)

\* a free worker picks up a queued sample
TaskStart(j) ==
    /\ pc = "engine"
    /\ task[j] = "pending"
    /\ ~failed
    /\ Cardinality(Running) < (IF call.threads < 1 THEN 1 ELSE call.threads)
    /\ task' = [task EXCEPT ![j] = "running"]
    /\ UNCHANGED <<params, data, pc, df, gmt, steps, call, rankings, slots, failed,
                   completed, output>>

\* a worker finishes its sample: it fails, or writes its own slot, or (after
\* a failure elsewhere) its result is discarded
TaskFinish(j) ==
    /\ pc = "engine"
    /\ task[j] = "running"
    /\ IF failed
       THEN task' = [task EXCEPT ![j] = "discarded"] /\ UNCHANGED <<slots, failed>>
       ELSE IF TaskFails(j)
       THEN task' = [task EXCEPT ![j] = "failed"] /\ failed' = TRUE /\ slots' = slots
       ELSE /\ task' = [task EXCEPT ![j] = "done"]
            /\ slots' = [slots EXCEPT ![j] = TaskColumn(j)]
            /\ failed' = failed
    /\ completed' = Append(completed, j)
    /\ UNCHANGED <<params, data, pc, df, gmt, steps, call, rankings, output>>

\* all samples scored: the result object
GsvaRsReturn ==
    /\ pc = "engine"
    /\ ~failed
    /\ \A j \in DOMAIN task : task[j] = "done"
    /\ gsum' = [summaries |-> slots,
                rankings  |-> rankings,
                indices   |-> [j \in DOMAIN rankings |->
                                 [k \in 1..Len(call.gene_ids) |-> k]]]
    /\ pc' = "returned"
    /\ UNCHANGED <<params, data, df, gmt, steps, engine, results, ranking, err>>

\* a task failed and the running ones have drained: the call raises
EngineRaises == failed /\ Running = {}

\* variant: the exception is caught and logged, and run() goes on with what
\* the engine had filled in
GsvaRsRaiseSwallowed ==
    /\ pc = "engine"
    /\ EngineRaises
    /\ gsum' = [summaries |-> slots,
                rankings  |-> rankings,
                indices   |-> [j \in DOMAIN rankings |->
                                 [k \in 1..Len(call.gene_ids) |-> k]]]
    /\ pc' = "returned"
    /\ UNCHANGED <<params, data, df, gmt, steps, engine, results, ranking, err>>

\* the exception raised inside gsva_rs(...) is not caught: it leaves run()
\* before to_df and before self.ranking is assigned
GsvaRsRaise ==
    /\ pc = "engine"
    /\ EngineRaises
    /\ err' = "ComputationError"
    /\ pc' = "error"
    /\ UNCHANGED <<params, data, df, gmt, steps, engine, gsum, results, ranking>>

\* ---- back in run() ------------------------------------------------------
\* variant: the unfiltered collection is passed as the row labels
ToDfArgsUnfiltered ==
    [summaries |-> gsum.summaries, gmt |-> gene_sets, df |-> df, indices |-> gsum.indices]

\* the argument list of self.to_df(gsum.summaries, gmt, df, gsum.indices)
ToDfArgs ==
    [summaries |-> gsum.summaries, gmt |-> gmt, df |-> df, indices |-> gsum.indices]

\* to_df: score table, one row per gene set of a.gmt, one column per sample
ToDf(a) ==
    [index   |-> [i \in DOMAIN a.gmt |-> a.gmt[i].name],
     columns |-> NCols(a.df),
     values  |-> IF a.summaries = <<>> THEN <<>>
                 ELSE [i \in DOMAIN a.summaries[1] |->
                         [j \in DOMAIN a.summaries |-> a.summaries[j][i]]]]

\* rnk[ind]
Reindex(rnk, ind) == [k \in DOMAIN ind |-> rnk[ind[k]]]

\* self.to_df(...); self.ranking = [rnk[ind] for rnk, ind in zip(...)]
Collect ==
    /\ pc = "returned"
    /\ results' = ToDf(ToDfArgs)
    /\ ranking' = [j \in DOMAIN gsum.rankings |->
                     Reindex(gsum.rankings[j], gsum.indices[j])]
    /\ steps' = Append(steps, "to_df")
    /\ pc' = "done"
    /\ UNCHANGED <<params, data, df, gmt, engine, gsum, err>>

Next ==
    \/ LoadData
    \/ ClipData
    \/ LoadGmt
    \/ CheckSizes
    \/ GsvaRsCall
    \/ \E j \in DOMAIN task : TaskStart(j)
    \/ \E j \in DOMAIN task : TaskFinish(j)
    \/ GsvaRsReturn
    \/ GsvaRsRaise
    \/ Collect

Spec == Init /\ [][Next]_vars

TypeOK == pc \in {"start", "loaded", "clipped", "filtered", "checked", "engine",
                  "returned", "done", "error"}

\* ---- properties --------------------------------------------------------
AfterClip == pc \notin {"start", "loaded"}
AfterFilter == pc \notin {"start", "loaded", "clipped"}
AfterCall == pc \in {"engine", "returned", "done"} \/ (pc = "error" /\ err = "ComputationError")

Names(sets) == {sets[i].name : i \in DOMAIN sets}
PosOf(sets, nm) == CHOOSE k \in DOMAIN sets : sets[k].name = nm
PresentSize(gs) == Cardinality(gs.genes \cap Range(data.index))

\* C1: when min_size > max_size the run ends in the configuration error
\* before anything was done: no load_data, clip, load_gmt or engine call has
\* been made and self.data, df and self.gmt are as the constructor left them.
C1_FailsBeforeTouchingData ==
    (pc = "error" /\ min_size > max_size) =>
        /\ steps = <<>>
        /\ data = input
        /\ df = None
        /\ gmt = <<>>

\* C2: a gene set whose overlap with the genes present in the matrix has a
\* size outside [min_size, max_size] is not among the surviving sets, every
\* surviving set is one of the input sets, and the surviving sets are in
\* their original relative order.
C2_FilterWindowAndOrder ==
    AfterFilter =>
        /\ \A k \in DOMAIN gene_sets :
              (PresentSize(gene_sets[k]) < min_size \/ PresentSize(gene_sets[k]) > max_size)
                  => gene_sets[k].name \notin Names(gmt)
        /\ Names(gmt) \subseteq Names(gene_sets)
        /\ \A i, k \in DOMAIN gmt :
              i < k => PosOf(gene_sets, gmt[i].name) < PosOf(gene_sets, gmt[k].name)

C2_Witness ==
    /\ pc = "done"
    /\ Len(gmt) >= 1
    /\ Len(gmt) < Len(gene_sets)
    /\ \E k \in DOMAIN gene_sets :
          /\ gene_sets[k].name \notin Names(gmt)
          /\ gene_sets[k].genes # {}
          /\ ~(gene_sets[k].genes \subseteq Range(data.index))

\* C3: when no gene set survives the filter and min_size <= max_size, the
\* run raises nothing, the engine is still invoked and its tasks do not fail,
\* and the finished run holds a score table with no rows.
C3_EmptyFilterStillRuns ==
    (AfterFilter /\ gmt = <<>> /\ min_size <= max_size) =>
        /\ pc # "error"
        /\ err = "none"
        /\ ~failed
        /\ pc = "done" =>
              /\ <<"gsva_rs">> = SelectSeq(steps, LAMBDA x : x = "gsva_rs")
              /\ results.index = <<>>
              /\ results.values = <<>>
              /\ results.columns = NCols(data)

C3_Witness ==
    /\ pc = "done"
    /\ gmt = <<>>
    /\ gene_sets # <<>>
    /\ results.values = <<>>

\* first-occurrence order of the labels of a sequence
RECURSIVE FirstSeen(_)
FirstSeen(ids) ==
    IF ids = <<>> THEN <<>>
    ELSE LET h == ids[Len(ids)]
             front == FirstSeen(SubSeq(ids, 1, Len(ids) - 1))
         IN  IF h \in Range(front) THEN front ELSE Append(front, h)

RawCell(r, c) == IF <<r, c>> \in input.na THEN 0 ELSE input.values[r][c]
RowsOf(g) == {r \in DOMAIN input.index : input.index[r] = g}
RECURSIVE SumCells(_, _)
SumCells(R, c) ==
    IF R = {} THEN 0
    ELSE LET r == CHOOSE x \in R : TRUE IN RawCell(r, c) + SumCells(R \ {r}, c)

\* C7: the loaded matrix has no missing cell and unique gene identifiers,
\* each of its rows is the arithmetic mean of the input rows carrying that
\* identifier with a missing cell counted as 0, and the identifiers are in
\* input order.
C7_LoaderContract ==
    pc = "loaded" =>
        /\ df.na = {}
        /\ \A i, k \in DOMAIN df.index : i # k => df.index[i] # df.index[k]
        /\ Range(df.index) = Range(input.index)
        /\ \A k \in DOMAIN df.index : \A c \in 1..NCols(input) :
              df.values[k][c] * Cardinality(RowsOf(df.index[k]))
                  = SumCells(RowsOf(df.index[k]), c)
        /\ df.index = FirstSeen(input.index)

\* the part of C7 that is about values and labels only
C7_MeansAndFill ==
    pc = "loaded" =>
        /\ df.na = {}
        /\ \A i, k \in DOMAIN df.index : i # k => df.index[i] # df.index[k]
        /\ Range(df.index) = Range(input.index)
        /\ \A k \in DOMAIN df.index : \A c \in 1..NCols(input) :
              df.values[k][c] * Cardinality(RowsOf(df.index[k]))
                  = SumCells(RowsOf(df.index[k]), c)

\* C8: the matrix handed to the filter and the engine is the loaded matrix
\* with negative cells set to 0 when, and only when, kcdf names the Poisson
\* kernel; otherwise it is the loaded matrix cell for cell; and the engine
\* never gets the count mode without the kernel.
C8_ClampOnlyForPoisson ==
    /\ rnaseq <=> kcdf \in {"Poisson", "poisson"}
    /\ rnaseq => kernel
    /\ AfterClip =>
          LET loaded == LoadDataOf(input)
          IN  /\ data = df
              /\ df.index = loaded.index
              /\ df.na = loaded.na
              /\ \A r \in DOMAIN loaded.values : \A c \in DOMAIN loaded.values[r] :
                    df.values[r][c] =
                        IF kcdf \in {"Poisson", "poisson"} /\ loaded.values[r][c] < 0
                        THEN 0 ELSE loaded.values[r][c]
    /\ AfterCall =>
          /\ call.matrix = df.values
          /\ call.gene_ids = df.index
          /\ call.rnaseq = rnaseq
          /\ call.kernel = kernel
          /\ call.rnaseq => call.kernel

C8_Witness ==
    /\ pc = "done"
    /\ kcdf = "POISSON"
    /\ \E r \in DOMAIN call.matrix : \E c \in DOMAIN call.matrix[r] : call.matrix[r][c] < 0

C8_WitnessClamped ==
    /\ AfterCall
    /\ kcdf = "poisson"
    /\ \E r \in DOMAIN call.matrix : \E c \in DOMAIN call.matrix[r] :
          call.matrix[r][c] = 0 /\ LoadDataOf(input).values[r][c] < 0

\* transformed value of gene i in sample j of self.data
TValue(i, j) == Transform(data.values, kernel)[i][j]

\* C4: every sample's ranking is a permutation of all gene indices (length
\* = gene count, each index once) in descending order of transformed value,
\* two genes of equal transformed value in ascending gene index order.
C4_RankingIsSortedPermutation ==
    AfterCall =>
        /\ Len(rankings) = NCols(data)
        /\ \A j \in DOMAIN rankings :
              /\ Len(rankings[j]) = NRows(data)
              /\ Range(rankings[j]) = 1..NRows(data)
              /\ \A a, b \in DOMAIN rankings[j] :
                    a < b => \/ TValue(rankings[j][a], j) > TValue(rankings[j][b], j)
                             \/ /\ TValue(rankings[j][a], j) = TValue(rankings[j][b], j)
                                /\ rankings[j][a] < rankings[j][b]
        /\ pc \in {"returned", "done"} => gsum.rankings = rankings

C4_Witness ==
    /\ pc = "done"
    /\ kernel
    /\ \E j \in DOMAIN gsum.rankings :
          /\ gsum.rankings[j][1] # 1
          /\ \E a, b \in 1..NRows(data) : a # b /\ TValue(a, j) = TValue(b, j)
          /\ \E a, b \in 1..NRows(data) : TValue(a, j) # TValue(b, j)

\* the score of surviving set i in sample j, from the inputs alone
ExpectedScore(i, j) ==
    LET col == [r \in 1..NRows(data) |-> TValue(r, j)]
    IN  ScoreOf(data.index, col, RankColumn(col), gmt[i].genes,
                [tau |-> tau, mx_diff |-> mx_diff, abs_rnk |-> abs_rnk])

\* C5: whatever the order in which the per-sample tasks ran and finished and
\* whatever the thread count, the finished score table has one row per
\* surviving gene set in filter order and one column per input sample, and
\* cell (i, j) is the score of the i-th surviving set in the j-th sample.
C5_TableIndependentOfSchedule ==
    pc = "done" =>
        /\ results.index = [i \in DOMAIN gmt |-> gmt[i].name]
        /\ results.columns = NCols(data)
        /\ Len(results.values) = Len(gmt)
        /\ \A i \in DOMAIN results.values :
              /\ Len(results.values[i]) = NCols(data)
              /\ \A j \in 1..NCols(data) : results.values[i][j] = ExpectedScore(i, j)

C5_Witness ==
    /\ pc = "done"
    /\ threads > 1
    /\ Len(completed) > 1
    /\ completed[1] > completed[2]
    /\ Len(gmt) >= 1
    /\ Len(gmt) < Len(gene_sets)
    /\ \E i \in DOMAIN results.values :
          results.values[i][1].num * results.values[i][2].den
              # results.values[i][2].num * results.values[i][1].den

\* C6: once a task has failed no later result is accepted (every task that
\* finished after the failing one was discarded and its slot left unwritten),
\* the run ends in a ComputationError and in nothing else, and no result is
\* published: the engine returns nothing, no score table is built and
\* self.ranking is not set; a finished run has every task done and only
\* finite scores.
C6_FailureIsSurfaced ==
    /\ ((\E j \in DOMAIN task : task[j] = "failed") \/ failed) =>
          /\ failed
          /\ pc \in {"engine", "error"}
          /\ pc = "error" => err = "ComputationError" /\ Running = {}
          /\ gsum = NoSum
          /\ results = NoTable
          /\ ranking = <<>>
          /\ \E k \in DOMAIN completed :
                /\ task[completed[k]] = "failed"
                /\ \A m \in DOMAIN completed :
                      /\ m < k => task[completed[m]] = "done"
                      /\ m > k => /\ task[completed[m]] = "discarded"
                                  /\ slots[completed[m]] = <<>>
          /\ \A j \in DOMAIN task :
                j \notin Range(completed) => task[j] \in {"pending", "running"} /\ slots[j] = <<>>
    /\ pc = "done" =>
          /\ \A j \in DOMAIN task : task[j] = "done"
          /\ \A i \in DOMAIN results.values : \A j \in DOMAIN results.values[i] :
                results.values[i][j].den > 0
    /\ (pc = "error" /\ min_size <= max_size) => failed

C6_Witness ==
    /\ pc = "error"
    /\ err = "ComputationError"
    /\ \E j, k \in DOMAIN task : task[j] = "failed" /\ task[k] = "done" /\ slots[k] # <<>>

C6_WitnessDrained ==
    /\ pc = "error"
    /\ err = "ComputationError"
    /\ \E j, k \in DOMAIN task : task[j] = "failed" /\ task[k] = "discarded"

C6_WitnessSetOfAllGenes ==
    /\ pc = "error"
    /\ err = "ComputationError"
    /\ \E i \in DOMAIN gmt : gmt[i].genes = Range(data.index)

\* C9: with abs_rnk set, every score of a finished run, and every score a
\* task has written, is non-negative.
C9_AbsRnkNonNegative ==
    abs_rnk =>
        /\ \A j \in DOMAIN slots : \A i \in DOMAIN slots[j] :
              slots[j][i].num >= 0 /\ slots[j][i].den > 0
        /\ \A i \in DOMAIN results.values : \A j \in DOMAIN results.values[i] :
              results.values[i][j].num >= 0 /\ results.values[i][j].den > 0

\* running-sum profile of surviving set i in sample j, position k, as the
\* numerator over NormIn * NormOut
ProfileAt(i, j, k) ==
    LET S   == gmt[i].genes
        in(g) == data.index[g] \in S
        nin == SumSeq([g \in 1..NRows(data) |-> IF in(g) THEN Pow(Abs(TValue(g, j)), tau) ELSE 0])
        nout == NRows(data) - Cardinality({g \in 1..NRows(data) : in(g)})
        rnk == gsum.rankings[j]
    IN  SumSeq([t \in 1..k |->
                  IF in(rnk[t]) THEN Pow(Abs(TValue(rnk[t], j)), tau) * nout ELSE 0 - nin])

ProfileValues(i, j) == {ProfileAt(i, j, k) : k \in 1..NRows(data)}
MaxPositive(i, j) == CHOOSE x \in ProfileValues(i, j) : \A y \in ProfileValues(i, j) : y <= x
MinNegative(i, j) == CHOOSE x \in ProfileValues(i, j) : \A y \in ProfileValues(i, j) : x <= y

C9_Witness ==
    /\ pc = "done"
    /\ abs_rnk
    /\ ~mx_diff
    /\ \E i \in DOMAIN results.values : \E j \in DOMAIN results.values[i] :
          /\ Abs(MinNegative(i, j)) > Abs(MaxPositive(i, j))
          /\ results.values[i][j].num > 0

\* C10: with abs_rnk unset, the score is max_positive - min_negative of the
\* running-sum profile over all ranked genes when mx_diff is set, and
\* otherwise the one of max_positive and min_negative with the larger
\* absolute value, sign kept.
C10_ReductionOfProfileExtremes ==
    (pc = "done" /\ ~abs_rnk) =>
        \A i \in DOMAIN results.values : \A j \in DOMAIN results.values[i] :
            LET mp == MaxPositive(i, j)
                mn == MinNegative(i, j)
                sc == results.values[i][j].num
            IN  /\ mp >= 0 /\ mn <= 0
                /\ mx_diff => sc = mp - mn
                /\ ~mx_diff =>
                      /\ sc \in {mp, mn}
                      /\ Abs(mp) > Abs(mn) => sc = mp
                      /\ Abs(mn) > Abs(mp) => sc = mn

C10_Witness ==
    /\ pc = "done"
    /\ ~abs_rnk
    /\ ~mx_diff
    /\ tau = 1
    /\ \E i \in DOMAIN results.values : \E j \in DOMAIN results.values[i] :
          /\ results.values[i][j].num < 0
          /\ results.values[i][j].num = MinNegative(i, j)

C10_WitnessMaxDiff ==
    /\ pc = "done"
    /\ ~abs_rnk
    /\ mx_diff
    /\ \E i \in DOMAIN results.values : \E j \in DOMAIN results.values[i] :
          MaxPositive(i, j) > 0 /\ MinNegative(i, j) < 0

====
